---- MODULE Spec2Model ----
(***************************************************************************)
(* Model of ism_animation.py: the static plot built by plot_room, the      *)
(* per-frame update animate, and the pipeline create_animation             *)
(* (subplots -> plot_room -> view limits -> FuncAnimation/save -> close).   *)
(*                                                                         *)
(* Numbers that the script computes in floating point (frame_num / fs,     *)
(* t_ind * 343.0, 1 - t_ind * 10) are kept as exact fractions num/den;     *)
(* rounding of the floats is not modelled.                                 *)
(***************************************************************************)
EXTENDS Integers, Sequences, FiniteSets, TLC

VARIABLES
    room_dim,      \* module global room_dim (set only by the __main__ block)
    figs,          \* pyplot's registry of open figures, current figure last
    files,         \* video files written so far
    pc,            \* position inside create_animation
    exc,           \* the exception that ended the call, or None
    room,          \* argument room: [dim, fs, max_order, im_sources]
    rir,           \* argument rir
    init_rir,      \* argument init_rir
    filename,      \* argument filename
    fig,           \* local fig (its figure number)
    line,          \* the animated line of ax_b: [x, y]
    propagations,  \* the circles of ax_a
    scatters,      \* the image-source scatter collections of ax_a, one per order
    ref,           \* the other lines of ax_b (the reference waveform)
    title,         \* the title of ax_a
    xlim,          \* view limits of ax_a
    ylim,
    frame,         \* next frame number the saving loop will draw
    calls          \* frame numbers animate has been applied to in this call

vars == <<room_dim, figs, files, pc, exc, room, rir, init_rir, filename, fig,
          line, propagations, scatters, ref, title, xlim, ylim, frame, calls>>

(***************************************************************************)
(* Bounds of the model.                                                    *)
(***************************************************************************)
MaxFrames == 3      \* fs ranges over 10, 20, ..., 10 * MaxFrames
MaxRirLen == 2      \* rir has at most this many samples
MaxSources == 2     \* an image-source object holds at most this many images
MaxFigs == 2        \* at most this many figures are open at once

(***************************************************************************)
(* Program constants.                                                      *)
(***************************************************************************)
SpeedOfSound == 343
FadeRate == 10
CycleLen == 10      \* colours in the "tableau-colorblind10" property cycle

None == "None"      \* a local that is not bound
Undefined == << >>  \* the global room_dim when nothing has defined it
NoValue == << >>    \* Python None in a field that may hold a value
Some(v) == <<v>>

Samples == {0, 1}
FsValues == {10 * k : k \in 1..MaxFrames}
RoomDims == {<<10, 6>>, <<5, 4>>}
MaxOrders == {0, 1}
Orders == {0, 1, 2}
Filenames == {"ism_anim_1"}

SeqsUpTo(S, n) == UNION {[1..k -> S] : k \in 0..n}

Rirs == SeqsUpTo(Samples, MaxRirLen)
InitRirs == {<< >>, <<1>>}

\* An image-source object: images[:, i] and orders[i]; image i lies at a
\* position of its own.
ImagePos(i) == <<i, 2 * i>>
ImSources == {[i \in 1..Len(os) |-> [pos |-> ImagePos(i), order |-> os[i]]] :
                 os \in SeqsUpTo(Orders, MaxSources)}

Rooms == [dim : RoomDims, fs : FsValues, max_order : MaxOrders,
          im_sources : ImSources]

(***************************************************************************)
(* Fractions.                                                              *)
(***************************************************************************)
Q(n, d) == [num |-> n, den |-> d]
QEq(a, b) == a.num * b.den = b.num * a.den
QLess(a, b) == a.num * b.den < b.num * a.den

\* np.arange(n) / fs
TimeAxis(n, fs) == [k \in 1..n |-> Q(k - 1, fs)]

\* rir[:n]
Slice(s, n) == SubSeq(s, 1, IF n < Len(s) THEN n ELSE Len(s))

\* "{:.3f}".format(n / fs), as thousandths (round half to even)
Format3(n, fs) ==
    LET q == (1000 * n) \div fs
        r == (1000 * n) % fs
    IN  IF 2 * r > fs \/ (2 * r = fs /\ q % 2 = 1) THEN q + 1 ELSE q

StaticTitle ==
    [text |-> "Room Impulse Response of a shoebox room", t |-> NoValue]
FrameTitle(n, fs) ==
    [text |-> "Room Impulse Response of a shoebox room",
     t |-> Some(Format3(n, fs))]

\* frames=int(0.1 * room.fs)
Frames(fs) == fs \div 10

Range(s) == {s[i] : i \in 1..Len(s)}

(***************************************************************************)
(* plot_room                                                               *)
(***************************************************************************)
\* patches.Circle((x[i], y[i]), radius=0, fill=False, linewidth=2,
\*                edgecolor=color): no alpha is given, so the alpha the
\* artist is drawn with (Artist._alpha) is None, i.e. fully opaque.
Circle(pos, color) ==
    [center |-> pos, radius |-> Q(0, 1), edgecolor |-> color,
     drawn_alpha |-> NoValue, alpha |-> NoValue]

\* im_sources.images[:, im_sources.orders == order]
Masked(im_sources, order) ==
    SelectSeq(im_sources, LAMBDA s : s.order = order)

\* ims = axs[0].scatter(x, y); color = ims.get_facecolors()[0]: the k-th
\* scatter that takes its colour from the property cycle gets colour k
ScatterColor(order) == order % CycleLen

\* the body of `for order in range(max_order + 1)` for one order
OrderCircles(im_sources, order) ==
    LET m == Masked(im_sources, order)
    IN  [i \in 1..Len(m) |-> Circle(m[i].pos, ScatterColor(order))]

\* PlotOrders with `range(max_order)` in place of `range(max_order + 1)`
RECURSIVE PlotOrders_ExclusiveMax(_, _, _)
PlotOrders_ExclusiveMax(im_sources, order, max_order) ==
    IF order >= max_order THEN << >>
    ELSE OrderCircles(im_sources, order)
           \o PlotOrders_ExclusiveMax(im_sources, order + 1, max_order)

RECURSIVE PlotOrders(_, _, _)
PlotOrders(im_sources, order, max_order) ==
    IF order > max_order THEN << >>
    ELSE OrderCircles(im_sources, order)
           \o PlotOrders(im_sources, order + 1, max_order)

PlotScatters(im_sources, max_order) ==
    [k \in 1..(max_order + 1) |->
        [order |-> k - 1, color |-> ScatterColor(k - 1),
         points |-> [i \in 1..Len(Masked(im_sources, k - 1)) |->
                        Masked(im_sources, k - 1)[i].pos]]]

\* PlotInitRir without the test `init_rir.size > 0`
PlotInitRir_Unconditional(init, fs) ==
    <<[x |-> TimeAxis(Len(init), fs), y |-> init]>>

\* if init_rir.size > 0: axs[1].plot(np.arange(init_rir.size) / fs, init_rir)
PlotInitRir(init, fs) ==
    IF Len(init) > 0 THEN <<[x |-> TimeAxis(Len(init), fs), y |-> init]>>
    ELSE << >>

EmptyLine == [x |-> << >>, y |-> << >>]

plot_room(im_sources, max_order, fs, init) ==
    [propagations |-> PlotOrders(im_sources, 0, max_order),
     scatters |-> PlotScatters(im_sources, max_order),
     title |-> StaticTitle,
     ref |-> PlotInitRir(init, fs),
     line |-> EmptyLine]

(***************************************************************************)
(* animate                                                                 *)
(***************************************************************************)
\* Radius computed from frame_num in place of t_ind
Radius_FromFrameNumber(frame_num, fs) == Q(SpeedOfSound * frame_num, 1)

\* propagation.set_radius(t_ind * 343.0)
Radius(frame_num, fs) == Q(SpeedOfSound * frame_num, fs)

\* 1 - t_ind * 10
Fade(frame_num, fs) == Q(fs - FadeRate * frame_num, fs)

\* propagation.alpha = ...: a plain attribute assignment; the artist is
\* drawn with Artist._alpha, which only set_alpha() changes
SetAlpha(c, a) == [c EXCEPT !.alpha = Some(a)]

\* line.set_data(np.arange(frame_num) / fs, rir[:frame_num])
SetData(frame_num, r, fs) ==
    [x |-> TimeAxis(frame_num, fs), y |-> Slice(r, frame_num)]

\* one pass of the body of `for propagation in propagations`
LoopBody(st, i, frame_num, r, fs) ==
    [propagations |->
        [st.propagations EXCEPT
            ![i] = SetAlpha([@ EXCEPT !.radius = Radius(frame_num, fs)],
                            Fade(frame_num, fs))],
     line |-> SetData(frame_num, r, fs),
     title |-> FrameTitle(frame_num, fs)]

RECURSIVE Loop(_, _, _, _, _)
Loop(st, i, frame_num, r, fs) ==
    IF i > Len(st.propagations) THEN st
    ELSE Loop(LoopBody(st, i, frame_num, r, fs), i + 1, frame_num, r, fs)

\* animate with set_data and set_text moved out of the loop over circles
animate_Dedented(frame_num, ax_title, ln, props, r, fs) ==
    [propagations |->
        Loop([propagations |-> props, line |-> ln, title |-> ax_title],
             1, frame_num, r, fs).propagations,
     line |-> SetData(frame_num, r, fs),
     title |-> FrameTitle(frame_num, fs)]

animate(frame_num, ax_title, ln, props, r, fs) ==
    Loop([propagations |-> props, line |-> ln, title |-> ax_title],
         1, frame_num, r, fs)

\* The opacity a circle is drawn with.
DrawnAlpha(c) == IF c.drawn_alpha = NoValue THEN Q(1, 1) ELSE c.drawn_alpha[1]

(***************************************************************************)
(* create_animation                                                        *)
(***************************************************************************)
Max(S) == CHOOSE m \in S : \A k \in S : k <= m

\* plt.subplots: the new figure's number
NewFigNum(fs) == IF fs = << >> THEN 1 ELSE Max(Range(fs)) + 1

\* Drawing a line recaches its data with np.broadcast_arrays(x, y), which
\* raises unless the two lengths agree or one of them is 1.
Drawable(ln) == Len(ln.x) = Len(ln.y) \/ Len(ln.x) = 1 \/ Len(ln.y) = 1

VideoFile(name) == <<name, ".mp4">>

Init ==
    /\ room_dim \in {Undefined} \cup {<<10, 6>>}
    /\ figs = << >>
    /\ files = {}
    /\ pc = "idle"
    /\ exc = None
    /\ room = None /\ rir = None /\ init_rir = None /\ filename = None
    /\ fig = None /\ line = None /\ propagations = None /\ scatters = None
    /\ ref = None /\ title = None /\ xlim = None /\ ylim = None
    /\ frame = None /\ calls = None

\* create_animation(room, rir, src_recv_idx, init_rir, filename) is entered;
\* fig, (ax_a, ax_b) = plt.subplots(...).  The image-source object im_sources
\* of the room stands for room.sources[src_recv_idx[1]].
Subplots ==
    /\ pc = "idle"
    /\ Len(figs) < MaxFigs
    /\ \E rm \in Rooms, r \in Rirs, ir \in InitRirs, fn \in Filenames :
          /\ room' = rm
          /\ rir' = r
          /\ init_rir' = ir
          /\ filename' = fn
    /\ fig' = NewFigNum(figs)
    /\ figs' = Append(figs, NewFigNum(figs))
    /\ pc' = "subplots"
    /\ line' = None /\ propagations' = None /\ scatters' = None
    /\ ref' = None /\ title' = None /\ xlim' = NoValue /\ ylim' = NoValue
    /\ frame' = None /\ calls' = << >>
    /\ UNCHANGED <<room_dim, files, exc>>

\* line, propagations = plot_room([ax_a, ax_b], ..., fs=room.fs, init_rir=init_rir)
PlotRoom ==
    /\ pc = "subplots"
    /\ LET p == plot_room(room.im_sources, room.max_order, room.fs, init_rir)
       IN  /\ line' = p.line
           /\ propagations' = p.propagations
           /\ scatters' = p.scatters
           /\ ref' = p.ref
           /\ title' = p.title
    /\ pc' = "plotted"
    /\ UNCHANGED <<room_dim, figs, files, exc, room, rir, init_rir, filename,
                   fig, xlim, ylim, frame, calls>>

\* ax_a.set_xlim([0, room_dim[0]]); ax_a.set_ylim([0, room_dim[1]]):
\* room_dim is the module global, a NameError when it is not defined
SetLimits ==
    /\ pc = "plotted"
    /\ IF room_dim = Undefined
       THEN /\ pc' = "raised"
            /\ exc' = "NameError"
            /\ UNCHANGED <<xlim, ylim>>
       ELSE /\ xlim' = <<0, room_dim[1]>>
            /\ ylim' = <<0, room_dim[2]>>
            /\ pc' = "limited"
            /\ UNCHANGED exc
    /\ UNCHANGED <<room_dim, figs, files, room, rir, init_rir, filename, fig,
                   line, propagations, scatters, ref, title, frame, calls>>

ApplyAnimate(n) ==
    LET a == animate(n, title, line, propagations, rir, room.fs)
    IN  /\ propagations' = a.propagations
        /\ line' = a.line
        /\ title' = a.title
        /\ calls' = Append(calls, n)

\* anim.save begins: with no init_func, FuncAnimation draws the first item
\* of the frame sequence to initialise the figure
InitDraw ==
    /\ pc = "limited"
    /\ Frames(room.fs) > 0
    /\ ApplyAnimate(0)
    /\ frame' = 0
    /\ pc' = "saving"
    /\ UNCHANGED <<room_dim, figs, files, exc, room, rir, init_rir, filename,
                   fig, scatters, ref, xlim, ylim>>

\* anim.save, one frame: animate(frame, ...) and then the writer grabs the
\* drawn figure
SaveFrame ==
    /\ pc = "saving"
    /\ frame < Frames(room.fs)
    /\ ApplyAnimate(frame)
    /\ IF Drawable(line')
       THEN /\ frame' = frame + 1
            /\ pc' = "saving"
            /\ UNCHANGED exc
       ELSE /\ pc' = "raised"
            /\ exc' = "ValueError"
            /\ UNCHANGED frame
    /\ UNCHANGED <<room_dim, figs, files, room, rir, init_rir, filename, fig,
                   scatters, ref, xlim, ylim>>

\* anim.save ends: the writer finishes f"{filename}.mp4"
FinishSave ==
    /\ pc = "saving"
    /\ frame = Frames(room.fs)
    /\ files' = files \cup {VideoFile(filename)}
    /\ pc' = "written"
    /\ UNCHANGED <<room_dim, figs, exc, room, rir, init_rir, filename, fig,
                   line, propagations, scatters, ref, title, xlim, ylim,
                   frame, calls>>

\* plt.close(): closes pyplot's current figure
Close ==
    /\ pc = "written"
    /\ figs' = SubSeq(figs, 1, Len(figs) - 1)
    /\ pc' = "closed"
    /\ UNCHANGED <<room_dim, files, exc, room, rir, init_rir, filename, fig,
                   line, propagations, scatters, ref, title, xlim, ylim,
                   frame, calls>>

\* The call is over (it returned, or its exception reached the caller): its
\* locals are gone.
Return ==
    /\ pc \in {"closed", "raised"}
    /\ pc' = "idle"
    /\ exc' = None
    /\ room' = None /\ rir' = None /\ init_rir' = None /\ filename' = None
    /\ fig' = None /\ line' = None /\ propagations' = None /\ scatters' = None
    /\ ref' = None /\ title' = None /\ xlim' = None /\ ylim' = None
    /\ frame' = None /\ calls' = None
    /\ UNCHANGED <<room_dim, figs, files>>

Next ==
    \/ Subplots
    \/ PlotRoom
    \/ SetLimits
    \/ InitDraw
    \/ SaveFrame
    \/ FinishSave
    \/ Close
    \/ Return

Spec == Init /\ [][Next]_vars

(***************************************************************************)
(* States the claims speak about.                                          *)
(***************************************************************************)
\* animate has been applied at least once in the current call
Animated ==
    /\ pc \in {"saving", "written", "closed", "raised"}
    /\ Len(calls) > 0

\* the frame number of the latest animate call
LastFrame == calls[Len(calls)]

Min(a, b) == IF a < b THEN a ELSE b

\* the image sources of the room whose order lies in 0..max_order
Shown == {i \in 1..Len(room.im_sources) :
             room.im_sources[i].order \in 0..room.max_order}

\* the image source a circle is centred at
SourceOf(c) == CHOOSE i \in 1..Len(room.im_sources) :
                   room.im_sources[i].pos = c.center

(***************************************************************************)
(* C1: after animate(n, ...) with a non-empty list of circles, every      *)
(* circle has the radius 343 * n / fs (radius * fs = 343 * n), whatever   *)
(* radius it had before; frame 0 gives radius 0.                          *)
(***************************************************************************)
C1_RadiusAtSpeedOfSound ==
    (Animated /\ Len(propagations) > 0) =>
        \A j \in 1..Len(propagations) :
            /\ propagations[j].radius.den > 0
            /\ propagations[j].radius.num * room.fs
                 = 343 * LastFrame * propagations[j].radius.den
            /\ (LastFrame = 0 => propagations[j].radius.num = 0)

C1_Witness ==
    /\ Animated
    /\ Len(propagations) = 2
    /\ LastFrame = 2
    /\ room.fs = 30
    /\ \A j \in 1..2 : QEq(propagations[j].radius, Q(686, 30))

(***************************************************************************)
(* C2: for every RIR and every frame n below int(0.1 * fs), after         *)
(* animate(n, ...) the waveform line holds exactly n points, point k      *)
(* being (k / fs, rir[k]); x data and y data have the same length n.      *)
(* (Stated for a non-empty list of circles; C9 covers the empty list.)    *)
(***************************************************************************)
C2_LineRevealsRir ==
    (Animated /\ Len(propagations) > 0) =>
        /\ Len(line.x) = LastFrame
        /\ Len(line.y) = LastFrame
        /\ \A k \in 1..LastFrame :
              /\ k <= Len(line.x) => QEq(line.x[k], Q(k - 1, room.fs))
              /\ (k <= Len(line.y) /\ k <= Len(rir)) => line.y[k] = rir[k]

(***************************************************************************)
(* C3: create_animation is a linear pipeline: plot_room, then animate on  *)
(* the frames 0 .. int(0.1 * fs) - 1 in ascending order with none skipped *)
(* and none outside the range, then '<filename>.mp4' is written, then the *)
(* figure is closed; the pipeline always reaches the closed state (no     *)
(* call ends anywhere else).                                              *)
(***************************************************************************)
AscendingFrames ==
    /\ \A k \in 1..Len(calls) : calls[k] \in 0..(Frames(room.fs) - 1)
    /\ Len(calls) > 0 => calls[1] = 0
    /\ \A k \in 1..(Len(calls) - 1) :
          calls[k + 1] = calls[k] \/ calls[k + 1] = calls[k] + 1

C3_LinearPipeline ==
    /\ pc # "raised"
    /\ pc \in {"saving", "written", "closed"} => AscendingFrames
    /\ pc \in {"written", "closed"} =>
          /\ LastFrame = Frames(room.fs) - 1
          /\ VideoFile(filename) \in files
    /\ pc = "closed" => fig \notin Range(figs)

(***************************************************************************)
(* C4: plot_room returns exactly one circle per image source whose order  *)
(* is in 0..max_order, centred at its own image source, of radius 0, in   *)
(* the colour of the scatter points of its order, grouped by ascending    *)
(* order; image sources of a greater order get no circle.                 *)
(***************************************************************************)
C4_OneCirclePerImageSource ==
    pc = "plotted" =>
        /\ Len(propagations) = Cardinality(Shown)
        /\ {propagations[j].center : j \in 1..Len(propagations)}
             = {room.im_sources[i].pos : i \in Shown}
        /\ \A j \in 1..Len(propagations) :
              /\ propagations[j].radius.num = 0
              /\ \E sc \in Range(scatters) :
                    /\ sc.order = room.im_sources[SourceOf(propagations[j])].order
                    /\ propagations[j].center \in Range(sc.points)
                    /\ propagations[j].edgecolor = sc.color
        /\ \A j, k \in 1..Len(propagations) :
              j < k => room.im_sources[SourceOf(propagations[j])].order
                         <= room.im_sources[SourceOf(propagations[k])].order

C4_Witness ==
    /\ pc = "plotted"
    /\ room.max_order = 1
    /\ Len(room.im_sources) = 2
    /\ room.im_sources[1].order = 1
    /\ room.im_sources[2].order = 0
    /\ Len(propagations) = 2
    /\ propagations[1].center = room.im_sources[2].pos
    /\ propagations[2].center = room.im_sources[1].pos

(***************************************************************************)
(* C5: plot_room draws init_rir on the waveform panel (sample k at time   *)
(* k / fs) if and only if init_rir is non-empty, and the animated line it *)
(* returns is empty either way; no animate call changes the reference     *)
(* waveform, the circle centres or the image-source points.               *)
(***************************************************************************)
ReferenceAsGiven ==
    /\ (Len(ref) > 0) <=> (Len(init_rir) > 0)
    /\ Len(ref) <= 1
    /\ \A l \in Range(ref) :
          /\ l.y = init_rir
          /\ Len(l.x) = Len(init_rir)
          /\ \A k \in 1..Len(l.x) : QEq(l.x[k], Q(k - 1, room.fs))

Centres(props) == [j \in 1..Len(props) |-> props[j].center]

AnimateFrame ==
    (pc \in {"limited", "saving"} /\ pc' \in {"saving", "raised"}) =>
        /\ ref' = ref
        /\ scatters' = scatters
        /\ Centres(propagations') = Centres(propagations)
        /\ xlim' = xlim /\ ylim' = ylim
        /\ figs' = figs /\ files' = files

C5_ReferenceOptionalAndStatic ==
    /\ [](pc = "plotted" => (ReferenceAsGiven /\ line = EmptyLine))
    /\ [](Animated => ReferenceAsGiven)
    /\ [][AnimateFrame]_vars

C5_Witness ==
    /\ Animated
    /\ LastFrame = 1
    /\ Len(init_rir) > 0
    /\ Len(ref) = 1
    /\ Len(propagations) > 0
    /\ Len(line.y) = 1

(***************************************************************************)
(* C6: no state persists between animations: every call starts from a     *)
(* fresh figure with every circle at radius 0 and an empty animated line, *)
(* its frames depend on its own arguments alone, and after each call no   *)
(* figure of that call remains open.                                      *)
(***************************************************************************)
C6_NoPersistentState ==
    /\ pc = "subplots" => fig \notin Range(SubSeq(figs, 1, Len(figs) - 1))
    /\ pc = "plotted" =>
          /\ line = EmptyLine
          /\ \A j \in 1..Len(propagations) : propagations[j].radius.num = 0
    /\ (Animated /\ Len(propagations) > 0) =>
          \A j \in 1..Len(propagations) :
              QEq(propagations[j].radius, Q(343 * LastFrame, room.fs))
    /\ pc \in {"closed", "raised"} => fig \notin Range(figs)

(***************************************************************************)
(* C7: after animate(n, ...) every circle is drawn with the opacity       *)
(* 1 - 10 * n / fs, which lies in (0, 1] over the frames of an animation. *)
(***************************************************************************)
C7_CirclesFadeOut ==
    (Animated /\ Len(propagations) > 0) =>
        \A j \in 1..Len(propagations) :
            /\ QEq(DrawnAlpha(propagations[j]),
                   Q(room.fs - 10 * LastFrame, room.fs))
            /\ QLess(Q(0, 1), DrawnAlpha(propagations[j]))
            /\ ~QLess(Q(1, 1), DrawnAlpha(propagations[j]))

(***************************************************************************)
(* C8: once the static plot is built and the view restricted, the x       *)
(* limits are [0, width] and the y limits [0, height] of the room that    *)
(* create_animation was given.                                            *)
(***************************************************************************)
C8_LimitsFromRoomArgument ==
    pc \in {"limited", "saving", "written", "closed"} =>
        /\ xlim = <<0, room.dim[1]>>
        /\ ylim = <<0, room.dim[2]>>

(***************************************************************************)
(* C9: with at least one circle, the line data and the title after        *)
(* animate(n, ...) are fixed by n, rir and fs alone, however many circles *)
(* there are; with no circle, animate leaves the line data and the title  *)
(* as plot_room set them, for every frame.                                *)
(***************************************************************************)
C9_UpdateInsideCircleLoop ==
    Animated =>
        IF Len(propagations) > 0
        THEN /\ Len(line.x) = LastFrame
             /\ \A k \in 1..Len(line.x) : line.x[k] = Q(k - 1, room.fs)
             /\ line.y = SubSeq(rir, 1, Min(LastFrame, Len(rir)))
             /\ title.t = <<Format3(LastFrame, room.fs)>>
        ELSE /\ line = EmptyLine
             /\ title = StaticTitle

C9_Witness ==
    /\ Animated
    /\ Len(propagations) = 0
    /\ LastFrame = 2
    /\ Len(rir) = 2
    /\ line = EmptyLine
    /\ title.t = NoValue

====
